---- MODULE Spec2Model ----
(***************************************************************************)
(* Model of webview-ui/src/components/account/AccountView.tsx: the React   *)
(* account panel.  The state is the props of the last render, the          *)
(* wasAuthenticatedRef cell, the pending passive effect, and recordings of *)
(* the two external sinks (telemetryClient.capture, vscode.postMessage)    *)
(* and of the onDone callback.  The host owns the logical authentication   *)
(* value and decides when the view is rendered with it.                    *)
(***************************************************************************)
EXTENDS Integers, Sequences, FiniteSets

VARIABLES
    mounted,              \* a view instance is mounted
    hostAuth,             \* the host's current (logical) isAuthenticated value
    isAuthenticated,      \* prop of the last render
    userInfo,             \* prop of the last render
    cloudApiUrl,          \* prop of the last render
    wasAuthenticatedRef,  \* wasAuthenticatedRef.current
    effectPending,        \* the useEffect of the last render has not run yet
    rendered,             \* history: isAuthenticated of every render of this instance
    logical,              \* history: every value hostAuth took while this instance is mounted
    trace,                \* recorded capture / postMessage / onDone calls of this instance
    clicks,               \* number of click callbacks run in this instance
    priorSawAuth,         \* history: an earlier, unmounted instance observed isAuthenticated = true
    lastOp,               \* name of the last callback that ran
    twin                  \* ref, pending effect and recording of a second instance given the same props

vars == <<mounted, hostAuth, isAuthenticated, userInfo, cloudApiUrl, wasAuthenticatedRef,
          effectPending, rendered, logical, trace, clicks, priorSawAuth, lastOp, twin>>

----------------------------------------------------------------------------
(* Bounds of the model *)

MaxRenders == 5
MaxLogical == 5
MaxClicks == 2

\* bounds of the two-instance specification
MaxPairRenders == 3
MaxTwinClicks == 1

----------------------------------------------------------------------------
(* JavaScript values: optional strings are kept as sequences of characters *)

Undefined == [tag |-> "undefined"]

Null == [tag |-> "null"]

Str(cs) == [tag |-> "string", chars |-> cs]

\* JavaScript truthiness of string | undefined | null | object
Truthy(v) ==
    CASE v.tag = "undefined" -> FALSE
      [] v.tag = "null" -> FALSE
      [] v.tag = "string" -> v.chars # <<>>
      [] OTHER -> TRUE

\* a || b
Or(a, b) == IF Truthy(a) THEN a ELSE b

\* s?.charAt(0)
charAt0(s) ==
    IF s.tag # "string" THEN Undefined
    ELSE IF s.chars = <<>> THEN Str(<<>>)
    ELSE Str(<<s.chars[1]>>)

DefaultCloudUrl == Str(<<"https://", "app.roocode.com">>)

CustomCloudUrl == Str(<<"https://", "custom.example.com">>)

\* values of the optional prop cloudApiUrl the host supplies
CloudApiUrls == {Undefined, Str(<<>>), CustomCloudUrl}

CloudUserInfo(p, n, e, o, oi) ==
    [tag |-> "object", picture |-> p, name |-> n, email |-> e,
     organizationName |-> o, organizationImageUrl |-> oi]

\* values of the prop userInfo the host supplies
UserInfos ==
    { Null,
      CloudUserInfo(Undefined, Str(<<>>), Str(<<"a", "@b.com">>), Undefined, Undefined),
      CloudUserInfo(Str(<<"p", ".png">>), Str(<<"N", "ame">>), Str(<<"a", "@b.com">>),
                    Str(<<"O", "rg">>), Str(<<"o", ".png">>)) }

----------------------------------------------------------------------------
(* The two sinks and the dismiss callback, as recorded calls *)

capture(eventName) == [kind |-> "telemetry", name |-> eventName, url |-> Undefined]

postMessage(type, url) == [kind |-> "post", name |-> type, url |-> url]

onDone == [kind |-> "onDone", name |-> "onDone", url |-> Undefined]

ACCOUNT_CONNECT_CLICKED == "ACCOUNT_CONNECT_CLICKED"

ACCOUNT_LOGOUT_CLICKED == "ACCOUNT_LOGOUT_CLICKED"

ACCOUNT_LOGOUT_SUCCESS == "ACCOUNT_LOGOUT_SUCCESS"

----------------------------------------------------------------------------
(* The transition tracker: useRef(false) and useEffect(..., [isAuthenticated]) *)

\* variant: the ref starts as true
wasAuthenticatedRefInitial_True == TRUE

\* the initial value of wasAuthenticatedRef.current
wasAuthenticatedRefInitial == FALSE

\* variant: no dependency array, the effect is scheduled by every render
DepsChanged_NoDeps(prevIsAuthenticated, nextIsAuthenticated) == TRUE

\* the dependency array: the effect is scheduled on mount and whenever
\* isAuthenticated differs from the previous render's
DepsChanged(prevIsAuthenticated, nextIsAuthenticated) ==
    prevIsAuthenticated # nextIsAuthenticated

\* variant: the authenticated branch does not set the ref
TrackerEffect_NeverSetsRef(isAuth, was) ==
    IF isAuth
    THEN [was |-> was, captured |-> <<>>]
    ELSE IF was /\ ~isAuth
         THEN [was |-> FALSE, captured |-> <<capture(ACCOUNT_LOGOUT_SUCCESS)>>]
         ELSE [was |-> was, captured |-> <<>>]

\* variant: the unauthenticated branch does not consult the ref
TrackerEffect_NoRefCheck(isAuth, was) ==
    IF isAuth
    THEN [was |-> TRUE, captured |-> <<>>]
    ELSE [was |-> FALSE, captured |-> <<capture(ACCOUNT_LOGOUT_SUCCESS)>>]

\* variant: the ref is not reset after logout-succeeded is captured
TrackerEffect_NoReset(isAuth, was) ==
    IF isAuth
    THEN [was |-> TRUE, captured |-> <<>>]
    ELSE IF was /\ ~isAuth
         THEN [was |-> was, captured |-> <<capture(ACCOUNT_LOGOUT_SUCCESS)>>]
         ELSE [was |-> was, captured |-> <<>>]

\* variant: the tracker also posts a sign-out command when it detects the logout
TrackerEffect_PostsSignOut(isAuth, was) ==
    IF isAuth
    THEN [was |-> TRUE, captured |-> <<>>]
    ELSE IF was /\ ~isAuth
         THEN [was |-> FALSE,
               captured |-> <<capture(ACCOUNT_LOGOUT_SUCCESS),
                              postMessage("rooCloudSignOut", Undefined)>>]
         ELSE [was |-> was, captured |-> <<>>]

\* the effect body: the new wasAuthenticatedRef.current and the captured events
TrackerEffect(isAuth, was) ==
    IF isAuth
    THEN [was |-> TRUE, captured |-> <<>>]
    ELSE IF was /\ ~isAuth
         THEN [was |-> FALSE, captured |-> <<capture(ACCOUNT_LOGOUT_SUCCESS)>>]
         ELSE [was |-> was, captured |-> <<>>]

----------------------------------------------------------------------------
(* The click handlers: the calls each makes, in order *)

\* variant: the connect handler only posts
handleConnectClick_NoTelemetry ==
    <<postMessage("rooCloudSignIn", Undefined)>>

handleConnectClick ==
    <<capture(ACCOUNT_CONNECT_CLICKED), postMessage("rooCloudSignIn", Undefined)>>

\* variant: the logout handler captures logout-succeeded itself
handleLogoutClick_CapturesSuccess ==
    <<capture(ACCOUNT_LOGOUT_SUCCESS), postMessage("rooCloudSignOut", Undefined)>>

\* variant: the logout handler posts before it captures
handleLogoutClick_PostFirst ==
    <<postMessage("rooCloudSignOut", Undefined), capture(ACCOUNT_LOGOUT_CLICKED)>>

\* variant: the logout handler reports the logout as succeeded right away
handleLogoutClick_AlsoSuccess ==
    <<capture(ACCOUNT_LOGOUT_CLICKED), postMessage("rooCloudSignOut", Undefined),
      capture(ACCOUNT_LOGOUT_SUCCESS)>>

handleLogoutClick ==
    <<capture(ACCOUNT_LOGOUT_CLICKED), postMessage("rooCloudSignOut", Undefined)>>

\* variant: cloudApiUrl ?? default, the empty string is posted as it is
handleVisitCloudWebsite_Nullish(url) ==
    <<capture(ACCOUNT_CONNECT_CLICKED),
      postMessage("openExternal", IF url = Undefined THEN DefaultCloudUrl ELSE url)>>

\* variant: the visit handler captures logout-clicked
handleVisitCloudWebsite_OtherEvent(url) ==
    <<capture(ACCOUNT_LOGOUT_CLICKED),
      postMessage("openExternal", Or(url, DefaultCloudUrl))>>

handleVisitCloudWebsite(url) ==
    <<capture(ACCOUNT_CONNECT_CLICKED),
      postMessage("openExternal", Or(url, DefaultCloudUrl))>>

----------------------------------------------------------------------------
(* The rendered output: which elements the JSX produces *)

\* variant: the email's first character is tried before the name's
AvatarInitial_EmailFirst(uInfo) ==
    Or(charAt0(uInfo.email), Or(charAt0(uInfo.name), Str(<<"?">>)))

\* the avatar's initial: userInfo?.name?.charAt(0) || userInfo?.email?.charAt(0) || "?"
AvatarInitial(uInfo) ==
    Or(charAt0(uInfo.name), Or(charAt0(uInfo.email), Str(<<"?">>)))

\* the profile block, rendered for a truthy userInfo in the authenticated branch
ProfileBlock(uInfo) ==
    [picture |-> IF Truthy(uInfo.picture) THEN uInfo.picture ELSE Undefined,
     initial |-> IF Truthy(uInfo.picture) THEN Undefined ELSE AvatarInitial(uInfo),
     name |-> IF Truthy(uInfo.name) THEN uInfo.name ELSE Undefined,
     email |-> IF Truthy(uInfo.email) THEN uInfo.email ELSE Undefined,
     organizationName |->
        IF Truthy(uInfo.organizationName) THEN uInfo.organizationName ELSE Undefined,
     organizationImageUrl |->
        IF Truthy(uInfo.organizationName) /\ Truthy(uInfo.organizationImageUrl)
        THEN uInfo.organizationImageUrl ELSE Undefined]

NoProfile ==
    [picture |-> Undefined, initial |-> Undefined, name |-> Undefined, email |-> Undefined,
     organizationName |-> Undefined, organizationImageUrl |-> Undefined]

\* variant: the branch is chosen by userInfo instead of isAuthenticated
AccountView_ByUserInfo(isAuth, uInfo) ==
    IF Truthy(uInfo)
    THEN [buttons |-> {"onDone", "handleVisitCloudWebsite", "handleLogoutClick"},
          profileShown |-> TRUE,
          profile |-> ProfileBlock(uInfo),
          logo |-> FALSE, benefits |-> FALSE]
    ELSE [buttons |-> {"onDone", "handleConnectClick"},
          profileShown |-> FALSE,
          profile |-> NoProfile,
          logo |-> TRUE, benefits |-> TRUE]

\* variant: the profile block is not guarded by userInfo
AccountView_NoUserInfoGuard(isAuth, uInfo) ==
    IF isAuth
    THEN [buttons |-> {"onDone", "handleVisitCloudWebsite", "handleLogoutClick"},
          profileShown |-> TRUE,
          profile |-> IF Truthy(uInfo) THEN ProfileBlock(uInfo) ELSE NoProfile,
          logo |-> FALSE, benefits |-> FALSE]
    ELSE [buttons |-> {"onDone", "handleConnectClick"},
          profileShown |-> FALSE,
          profile |-> NoProfile,
          logo |-> TRUE, benefits |-> TRUE]

\* variant: the log out button is rendered in both branches
AccountView_LogoutAlways(isAuth, uInfo) ==
    IF isAuth
    THEN [buttons |-> {"onDone", "handleVisitCloudWebsite", "handleLogoutClick"},
          profileShown |-> Truthy(uInfo),
          profile |-> IF Truthy(uInfo) THEN ProfileBlock(uInfo) ELSE NoProfile,
          logo |-> FALSE, benefits |-> FALSE]
    ELSE [buttons |-> {"onDone", "handleConnectClick", "handleLogoutClick"},
          profileShown |-> FALSE,
          profile |-> NoProfile,
          logo |-> TRUE, benefits |-> TRUE]

\* the elements of one render: the buttons (by onClick handler), the profile
\* block and the signed-out logo and benefits sections
AccountView(isAuth, uInfo) ==
    IF isAuth
    THEN [buttons |-> {"onDone", "handleVisitCloudWebsite", "handleLogoutClick"},
          profileShown |-> Truthy(uInfo),
          profile |-> IF Truthy(uInfo) THEN ProfileBlock(uInfo) ELSE NoProfile,
          logo |-> FALSE, benefits |-> FALSE]
    ELSE [buttons |-> {"onDone", "handleConnectClick"},
          profileShown |-> FALSE,
          profile |-> NoProfile,
          logo |-> TRUE, benefits |-> TRUE]

\* what is on screen: the output of the last render
View == AccountView(isAuthenticated, userInfo)

----------------------------------------------------------------------------
(* Initial state: no instance mounted yet *)

\* the second instance while it is not mounted
NoTwin == [wasAuthenticatedRef |-> FALSE, effectPending |-> FALSE, trace |-> <<>>, clicks |-> 0]

Init ==
    /\ mounted = FALSE
    /\ hostAuth \in BOOLEAN
    /\ isAuthenticated = FALSE
    /\ userInfo = Null
    /\ cloudApiUrl = Undefined
    /\ wasAuthenticatedRef = FALSE
    /\ effectPending = FALSE
    /\ rendered = <<>>
    /\ logical = <<>>
    /\ trace = <<>>
    /\ clicks = 0
    /\ priorSawAuth = FALSE
    /\ lastOp = "init"
    /\ twin = NoTwin

----------------------------------------------------------------------------
(* Host steps *)

\* the host's session changes (sign-in or sign-out completes); the view is
\* not rendered yet
HostAuthChange ==
    /\ Len(logical) < MaxLogical
    /\ hostAuth' = ~hostAuth
    /\ logical' = IF mounted THEN Append(logical, ~hostAuth) ELSE logical
    /\ lastOp' = "hostAuthChange"
    /\ UNCHANGED <<mounted, isAuthenticated, userInfo, cloudApiUrl, wasAuthenticatedRef,
                   effectPending, rendered, trace, clicks, priorSawAuth, twin>>

\* first render of a new instance: useRef(false), effect scheduled
Mount ==
    /\ ~mounted
    /\ mounted' = TRUE
    /\ isAuthenticated' = hostAuth
    /\ userInfo' \in UserInfos
    /\ cloudApiUrl' \in CloudApiUrls
    /\ wasAuthenticatedRef' = wasAuthenticatedRefInitial
    /\ effectPending' = TRUE
    /\ rendered' = <<hostAuth>>
    /\ logical' = <<hostAuth>>
    /\ trace' = <<>>
    /\ clicks' = 0
    /\ lastOp' = "mount"
    /\ UNCHANGED <<hostAuth, priorSawAuth, twin>>

\* a later render of the mounted instance with the host's current props;
\* pending passive effects are flushed before a component renders again
Render ==
    /\ mounted
    /\ ~effectPending
    /\ Len(rendered) < MaxRenders
    /\ isAuthenticated' = hostAuth
    /\ userInfo' \in UserInfos
    /\ cloudApiUrl' \in CloudApiUrls
    /\ effectPending' = DepsChanged(isAuthenticated, hostAuth)
    /\ rendered' = Append(rendered, hostAuth)
    /\ lastOp' = "render"
    /\ UNCHANGED <<mounted, hostAuth, wasAuthenticatedRef, logical, trace, clicks, priorSawAuth, twin>>

\* the scheduled effect runs
RunEffect ==
    /\ mounted
    /\ effectPending
    /\ LET r == TrackerEffect(isAuthenticated, wasAuthenticatedRef)
       IN /\ wasAuthenticatedRef' = r.was
          /\ trace' = trace \o r.captured
    /\ effectPending' = FALSE
    /\ lastOp' = "effect"
    /\ UNCHANGED <<mounted, hostAuth, isAuthenticated, userInfo, cloudApiUrl, rendered,
                   logical, clicks, priorSawAuth, twin>>

\* the instance is unmounted; its ref is discarded
Unmount ==
    /\ mounted
    /\ ~effectPending
    /\ mounted' = FALSE
    /\ priorSawAuth' = (priorSawAuth \/ (\E i \in DOMAIN rendered : rendered[i]))
    /\ isAuthenticated' = FALSE
    /\ userInfo' = Null
    /\ cloudApiUrl' = Undefined
    /\ wasAuthenticatedRef' = FALSE
    /\ rendered' = <<>>
    /\ logical' = <<>>
    /\ trace' = <<>>
    /\ clicks' = 0
    /\ lastOp' = "unmount"
    /\ UNCHANGED <<hostAuth, effectPending, twin>>

----------------------------------------------------------------------------
(* User steps: a click on a button that the last render produced *)

\* the Connect button, rendered in the unauthenticated branch
Connect ==
    /\ mounted
    /\ "handleConnectClick" \in View.buttons
    /\ clicks < MaxClicks
    /\ trace' = trace \o handleConnectClick
    /\ clicks' = clicks + 1
    /\ lastOp' = "connect"
    /\ UNCHANGED <<mounted, hostAuth, isAuthenticated, userInfo, cloudApiUrl,
                   wasAuthenticatedRef, effectPending, rendered, logical, priorSawAuth, twin>>

\* variant: a second log out click while a sign-out request is outstanding
\* captures the click but posts nothing
Disconnect_Deduplicated ==
    /\ mounted
    /\ "handleLogoutClick" \in View.buttons
    /\ clicks < MaxClicks
    /\ trace' = IF \E i \in DOMAIN trace : trace[i] = postMessage("rooCloudSignOut", Undefined)
                THEN Append(trace, capture(ACCOUNT_LOGOUT_CLICKED))
                ELSE trace \o handleLogoutClick
    /\ clicks' = clicks + 1
    /\ lastOp' = "disconnect"
    /\ UNCHANGED <<mounted, hostAuth, isAuthenticated, userInfo, cloudApiUrl,
                   wasAuthenticatedRef, effectPending, rendered, logical, priorSawAuth, twin>>

\* the Log out button, rendered in the authenticated branch
Disconnect ==
    /\ mounted
    /\ "handleLogoutClick" \in View.buttons
    /\ clicks < MaxClicks
    /\ trace' = trace \o handleLogoutClick
    /\ clicks' = clicks + 1
    /\ lastOp' = "disconnect"
    /\ UNCHANGED <<mounted, hostAuth, isAuthenticated, userInfo, cloudApiUrl,
                   wasAuthenticatedRef, effectPending, rendered, logical, priorSawAuth, twin>>

\* the Visit cloud website button, rendered in the authenticated branch; the
\* handler closes over the cloudApiUrl of the last render
VisitWebsite ==
    /\ mounted
    /\ "handleVisitCloudWebsite" \in View.buttons
    /\ clicks < MaxClicks
    /\ trace' = trace \o handleVisitCloudWebsite(cloudApiUrl)
    /\ clicks' = clicks + 1
    /\ lastOp' = "visitWebsite"
    /\ UNCHANGED <<mounted, hostAuth, isAuthenticated, userInfo, cloudApiUrl,
                   wasAuthenticatedRef, effectPending, rendered, logical, priorSawAuth, twin>>

\* the Done button of the header, rendered in both branches
Done ==
    /\ mounted
    /\ "onDone" \in View.buttons
    /\ clicks < MaxClicks
    /\ trace' = Append(trace, onDone)
    /\ clicks' = clicks + 1
    /\ lastOp' = "done"
    /\ UNCHANGED <<mounted, hostAuth, isAuthenticated, userInfo, cloudApiUrl,
                   wasAuthenticatedRef, effectPending, rendered, logical, priorSawAuth, twin>>

Next ==
    \/ HostAuthChange
    \/ Mount
    \/ Render
    \/ RunEffect
    \/ Unmount
    \/ Connect
    \/ Disconnect
    \/ VisitWebsite
    \/ Done

Spec == Init /\ [][Next]_vars

----------------------------------------------------------------------------
(* Measures over the recordings *)

\* number of true-to-false changes between consecutive values of a sequence
FallingEdges(s) == Cardinality({i \in 1..(Len(s) - 1) : s[i] /\ ~s[i + 1]})

\* number of captured telemetry events with a given name
Captured(eventName) ==
    Cardinality({i \in DOMAIN trace : trace[i] = capture(eventName)})

\* number of posted commands
Posted == Cardinality({i \in DOMAIN trace : trace[i].kind = "post"})

TypeOK ==
    /\ mounted \in BOOLEAN
    /\ hostAuth \in BOOLEAN
    /\ isAuthenticated \in BOOLEAN
    /\ userInfo \in UserInfos
    /\ cloudApiUrl \in CloudApiUrls
    /\ wasAuthenticatedRef \in BOOLEAN
    /\ effectPending \in BOOLEAN
    /\ Len(rendered) <= MaxRenders
    /\ Len(logical) <= MaxLogical
    /\ clicks \in 0..MaxClicks

----------------------------------------------------------------------------
(* Further measures *)

\* the renders whose effect has run: the values the tracker has observed
Observed ==
    IF effectPending THEN SubSeq(rendered, 1, Len(rendered) - 1) ELSE rendered

\* number of entries of a recording equal to a given call
CountIn(t, call) == Cardinality({i \in DOMAIN t : t[i] = call})

\* the click callbacks that go through the command dispatcher
DispatcherOps == {"connect", "disconnect", "visitWebsite"}

\* render modes, read off the rendered elements
SignedIn(v) == {"handleVisitCloudWebsite", "handleLogoutClick"} \subseteq v.buttons

SignedOut(v) == "handleConnectClick" \in v.buttons

----------------------------------------------------------------------------
(* C1: in every state of a mounted instance, the number of logout-succeeded
   events captured equals the number of true-to-false changes between
   consecutive isAuthenticated values the tracker has observed; rising edges
   and the mount value add nothing. *)
C1_LogoutOncePerFallingEdge ==
    mounted =>
        Captured(ACCOUNT_LOGOUT_SUCCESS) = FallingEdges(Observed)

\* the sequence false, true, false, true, false has been observed: two events
C1_Witness ==
    /\ mounted
    /\ ~effectPending
    /\ rendered = <<FALSE, TRUE, FALSE, TRUE, FALSE>>
    /\ Captured(ACCOUNT_LOGOUT_SUCCESS) = 2

(* C2: an instance that mounted with isAuthenticated = false and was only
   ever rendered with false has captured no logout-succeeded event, and its
   tracker is in state Out. *)
C2_NoLogoutWhenAlwaysSignedOut ==
    (mounted /\ \A i \in DOMAIN rendered : ~rendered[i]) =>
        /\ Captured(ACCOUNT_LOGOUT_SUCCESS) = 0
        /\ ~effectPending => ~wasAuthenticatedRef

\* mounted signed out, rendered signed out twice more, all effects run
C2_Witness ==
    /\ mounted
    /\ ~effectPending
    /\ Len(rendered) >= 3
    /\ \A i \in DOMAIN rendered : ~rendered[i]

(* C3 as stated: once the view has rendered the host's current value and run
   its effect, the number of logout-succeeded events equals the number of
   logical true-to-false changes of the host's isAuthenticated value, also
   when several changes were coalesced into one render. *)
C3_OnePerLogicalFallingEdge ==
    (mounted /\ ~effectPending /\ isAuthenticated = hostAuth) =>
        Captured(ACCOUNT_LOGOUT_SUCCESS) = FallingEdges(logical)

(* C3 amended: the tracker counts changes between consecutively rendered
   values: the number of logout-succeeded events equals the number of
   true-to-false changes between consecutive renders, and never exceeds the
   number of logical true-to-false changes; a logical change coalesced away
   between two renders adds no event. *)
C3_OnePerRenderedFallingEdge ==
    mounted =>
        /\ ~effectPending => Captured(ACCOUNT_LOGOUT_SUCCESS) = FallingEdges(rendered)
        /\ Captured(ACCOUNT_LOGOUT_SUCCESS) <= FallingEdges(logical)
        /\ FallingEdges(rendered) <= FallingEdges(logical)

\* true, false, true happened between two renders, both of which saw true
C3_Witness ==
    /\ mounted
    /\ ~effectPending
    /\ rendered = <<TRUE, TRUE>>
    /\ logical = <<TRUE, FALSE, TRUE>>
    /\ Captured(ACCOUNT_LOGOUT_SUCCESS) = 0

(* C4: a render with the same isAuthenticated as the previous render captures
   nothing, posts nothing, leaves wasAuthenticatedRef unchanged and schedules
   no evaluation of the tracker; an evaluation of the tracker that observes
   the value the ref already holds changes nothing either. *)
C4_SameValueIsNoOp ==
    [][ /\ (lastOp' = "render" /\ isAuthenticated' = isAuthenticated) =>
            /\ trace' = trace
            /\ wasAuthenticatedRef' = wasAuthenticatedRef
            /\ ~effectPending'
        /\ (lastOp' = "effect" /\ isAuthenticated = wasAuthenticatedRef) =>
            /\ trace' = trace
            /\ wasAuthenticatedRef' = wasAuthenticatedRef ]_vars

\* three renders in a row with isAuthenticated = true, tracker in state In
C4_Witness ==
    /\ mounted
    /\ lastOp = "render"
    /\ Len(rendered) >= 3
    /\ \A i \in (Len(rendered) - 2)..Len(rendered) : rendered[i]
    /\ wasAuthenticatedRef
    /\ ~effectPending

(* C5: a connect click appends exactly two calls to the recording, one
   capture of connect-clicked and one post of rooCloudSignIn, and changes
   nothing else of the view. *)
C5_ConnectEmitsAndPostsOnce ==
    [][ lastOp' = "connect" =>
            /\ Len(trace') = Len(trace) + 2
            /\ SubSeq(trace', 1, Len(trace)) = trace
            /\ CountIn(trace', capture(ACCOUNT_CONNECT_CLICKED))
                 = CountIn(trace, capture(ACCOUNT_CONNECT_CLICKED)) + 1
            /\ CountIn(trace', postMessage("rooCloudSignIn", Undefined))
                 = CountIn(trace, postMessage("rooCloudSignIn", Undefined)) + 1
            /\ UNCHANGED <<wasAuthenticatedRef, isAuthenticated, userInfo, effectPending>> ]_vars

\* connect clicked while the host is already signed in, userInfo is present
\* and the tracker is still in state In
C5_Witness ==
    /\ lastOp = "connect"
    /\ hostAuth
    /\ userInfo # Null
    /\ wasAuthenticatedRef

(* C6: a disconnect click appends exactly two calls to the recording, one
   capture of logout-clicked and one post of rooCloudSignOut; it captures no
   logout-succeeded. *)
C6_DisconnectEmitsAndPostsOnce ==
    [][ lastOp' = "disconnect" =>
            /\ Len(trace') = Len(trace) + 2
            /\ SubSeq(trace', 1, Len(trace)) = trace
            /\ CountIn(trace', capture(ACCOUNT_LOGOUT_CLICKED))
                 = CountIn(trace, capture(ACCOUNT_LOGOUT_CLICKED)) + 1
            /\ CountIn(trace', postMessage("rooCloudSignOut", Undefined))
                 = CountIn(trace, postMessage("rooCloudSignOut", Undefined)) + 1
            /\ CountIn(trace', capture(ACCOUNT_LOGOUT_SUCCESS))
                 = CountIn(trace, capture(ACCOUNT_LOGOUT_SUCCESS)) ]_vars

\* disconnect was clicked
C6_Witness ==
    /\ lastOp = "disconnect"
    /\ Len(trace) >= 2
    /\ trace[Len(trace)].name = "rooCloudSignOut"

(* C7 as stated: the command posted by visitWebsite carries cloudApiUrl
   verbatim whenever cloudApiUrl is a string, and the default URL only when
   cloudApiUrl is undefined. *)
C7_UrlVerbatimForEveryString ==
    lastOp = "visitWebsite" =>
        trace[Len(trace)].url =
            IF cloudApiUrl = Undefined THEN DefaultCloudUrl ELSE cloudApiUrl

(* C7 amended: the command posted by visitWebsite carries cloudApiUrl
   verbatim for every non-empty string, and the default URL when cloudApiUrl
   is undefined or the empty string. *)
C7_UrlVerbatimForNonEmptyString ==
    lastOp = "visitWebsite" =>
        trace[Len(trace)].url =
            IF cloudApiUrl.tag = "string" /\ Len(cloudApiUrl.chars) > 0
            THEN cloudApiUrl ELSE DefaultCloudUrl

\* visitWebsite clicked while cloudApiUrl is the empty string
C7_Witness ==
    /\ lastOp = "visitWebsite"
    /\ cloudApiUrl = Str(<<>>)
    /\ trace[Len(trace)].url = DefaultCloudUrl

(* C8: a visitWebsite click appends exactly two calls to the recording: one
   telemetry event, which is connect-clicked, and one posted command, which
   is of type openExternal. *)
C8_VisitEmitsConnectClickedAndPostsOnce ==
    [][ lastOp' = "visitWebsite" =>
            /\ Len(trace') = Len(trace) + 2
            /\ SubSeq(trace', 1, Len(trace)) = trace
            /\ \E i \in (Len(trace) + 1)..Len(trace') :
                    trace'[i] = capture(ACCOUNT_CONNECT_CLICKED)
            /\ \E i \in (Len(trace) + 1)..Len(trace') :
                    trace'[i].kind = "post" /\ trace'[i].name = "openExternal" ]_vars

\* visitWebsite was clicked with a custom cloudApiUrl
C8_Witness ==
    /\ lastOp = "visitWebsite"
    /\ cloudApiUrl = CustomCloudUrl
    /\ trace[Len(trace)].name = "openExternal"

(* C9: each dispatcher click appends its telemetry event first and its
   command directly after it, in one step in which no prop, ref or host value
   changes; so every posted command of the recording directly follows a
   click telemetry event. *)
C9_TelemetryBeforePost ==
    [][ lastOp' \in DispatcherOps =>
            /\ Len(trace') = Len(trace) + 2
            /\ SubSeq(trace', 1, Len(trace)) = trace
            /\ trace'[Len(trace) + 1].kind = "telemetry"
            /\ trace'[Len(trace) + 2].kind = "post"
            /\ \A i \in DOMAIN trace' :
                    trace'[i].kind = "post" => (i > 1 /\ trace'[i - 1].kind = "telemetry")
            /\ UNCHANGED <<hostAuth, isAuthenticated, userInfo, cloudApiUrl,
                           wasAuthenticatedRef, effectPending, rendered, logical>> ]_vars

\* two dispatcher clicks, the second a disconnect
C9_Witness ==
    /\ lastOp = "disconnect"
    /\ clicks = 2
    /\ Len(trace) >= 4
    /\ trace[Len(trace) - 2].kind = "post"

(* C10: the render mode is SignedIn exactly when isAuthenticated is true,
   exactly one of the two modes is rendered, and with isAuthenticated false
   nothing of userInfo is rendered. *)
C10_ModeFollowsIsAuthenticated ==
    mounted =>
        /\ SignedIn(View) <=> isAuthenticated
        /\ SignedOut(View) <=> ~isAuthenticated
        /\ ~isAuthenticated => (~View.profileShown /\ View.profile = NoProfile)

\* rendered signed out although a full userInfo is present
C10_Witness ==
    /\ mounted
    /\ ~isAuthenticated
    /\ userInfo # Null
    /\ Truthy(userInfo.picture)
    /\ SignedOut(View)

----------------------------------------------------------------------------
(* C11: with isAuthenticated true and userInfo null the render produces the
   authenticated buttons (visit website, log out) and no profile block; the
   profile block is rendered exactly when isAuthenticated is true and
   userInfo is present. *)
C11_ProfileOnlyWithUserInfo ==
    mounted =>
        /\ View.profileShown <=> (isAuthenticated /\ userInfo # Null)
        /\ (isAuthenticated /\ userInfo = Null) =>
               /\ SignedIn(View)
               /\ ~SignedOut(View)
               /\ View.profile = NoProfile

\* rendered signed in without userInfo
C11_Witness ==
    /\ mounted
    /\ isAuthenticated
    /\ userInfo = Null
    /\ View.buttons = {"onDone", "handleVisitCloudWebsite", "handleLogoutClick"}

----------------------------------------------------------------------------
(* The profile block over every combination of absent, empty and non-empty
   picture, name and email *)

\* an optional string field: absent, empty, or the given non-empty value
OptionalField(cs) == {Undefined, Str(<<>>), Str(cs)}

\* every combination of the fields of userInfo, and null
AllUserInfos ==
    {Null} \cup
    { CloudUserInfo(p, n, e, o[1], o[2]) :
        p \in OptionalField(<<"p", ".png">>),
        n \in OptionalField(<<"N", "ame">>),
        e \in OptionalField(<<"a", "@b.com">>),
        o \in {<<Undefined, Undefined>>, <<Undefined, Str(<<"o", ".png">>)>>,
               <<Str(<<"O", "rg">>), Str(<<"o", ".png">>)>>} }

\* first render of a new instance, with any userInfo
ProfileMount ==
    /\ ~mounted
    /\ mounted' = TRUE
    /\ isAuthenticated' = hostAuth
    /\ userInfo' \in AllUserInfos
    /\ cloudApiUrl' = Undefined
    /\ wasAuthenticatedRef' = wasAuthenticatedRefInitial
    /\ effectPending' = TRUE
    /\ rendered' = <<hostAuth>>
    /\ logical' = <<hostAuth>>
    /\ trace' = <<>>
    /\ clicks' = 0
    /\ lastOp' = "mount"
    /\ UNCHANGED <<hostAuth, priorSawAuth, twin>>

\* a later render, with any userInfo
ProfileRender ==
    /\ mounted
    /\ ~effectPending
    /\ Len(rendered) < MaxRenders
    /\ isAuthenticated' = hostAuth
    /\ userInfo' \in AllUserInfos
    /\ cloudApiUrl' = Undefined
    /\ effectPending' = DepsChanged(isAuthenticated, hostAuth)
    /\ rendered' = Append(rendered, hostAuth)
    /\ lastOp' = "render"
    /\ UNCHANGED <<mounted, hostAuth, wasAuthenticatedRef, logical, trace, clicks, priorSawAuth, twin>>

ProfileNext ==
    \/ HostAuthChange
    \/ ProfileMount
    \/ ProfileRender
    \/ RunEffect
    \/ Unmount

SpecProfile == Init /\ [][ProfileNext]_vars

\* a string field that is present, whatever its length
Present(f) == f.tag = "string"

\* a string field that is present and has at least one character
NonEmpty(f) == f.tag = "string" /\ Len(f.chars) >= 1

\* the first character of a non-empty string field, as a string
FirstChar(f) == Str(<<Head(f.chars)>>)

\* what the avatar shows: the image, or the text of the initials circle
Avatar(v) == [picture |-> v.profile.picture, initial |-> v.profile.initial]

\* the fallback below the picture: name, then email, then the placeholder
InitialsAvatar(uInfo) ==
    [picture |-> Undefined,
     initial |-> IF NonEmpty(uInfo.name) THEN FirstChar(uInfo.name)
                 ELSE IF NonEmpty(uInfo.email) THEN FirstChar(uInfo.email)
                 ELSE Str(<<"?">>)]

(* C12 as stated: when the profile block is shown, the avatar is the picture
   if the picture is present; otherwise the first character of a non-empty
   name; otherwise the first character of a non-empty email; otherwise "?". *)
C12_AvatarPictureIfPresent ==
    (mounted /\ View.profileShown) =>
        Avatar(View) =
            IF Present(userInfo.picture)
            THEN [picture |-> userInfo.picture, initial |-> Undefined]
            ELSE InitialsAvatar(userInfo)

(* C12 amended: when the profile block is shown, the avatar is the picture
   if the picture is present and non-empty; otherwise the first character of
   a non-empty name; otherwise the first character of a non-empty email;
   otherwise "?"; exactly one of image and initial is shown. *)
C12_AvatarPictureIfNonEmpty ==
    (mounted /\ View.profileShown) =>
        /\ Avatar(View) =
            IF NonEmpty(userInfo.picture)
            THEN [picture |-> userInfo.picture, initial |-> Undefined]
            ELSE InitialsAvatar(userInfo)
        /\ (Avatar(View).picture = Undefined) # (Avatar(View).initial = Undefined)

\* an empty picture and an empty name: the avatar is the email's first letter
C12_Witness ==
    /\ mounted
    /\ isAuthenticated
    /\ userInfo # Null
    /\ userInfo.picture = Str(<<>>)
    /\ userInfo.name = Str(<<>>)
    /\ userInfo.email = Str(<<"a", "@b.com">>)
    /\ Avatar(View) = [picture |-> Undefined, initial |-> Str(<<"a">>)]

----------------------------------------------------------------------------
(* Measures over the posted commands *)

\* number of posted commands in a recording
PostsIn(t) == Cardinality({i \in DOMAIN t : t[i].kind = "post"})

IsPost(call) == call.kind = "post"

\* the types of the posted commands of a recording, in posting order
PostTypes(t) ==
    LET posts == SelectSeq(t, IsPost)
    IN [i \in 1..Len(posts) |-> posts[i].name]

\* the message type each dispatcher operation posts
CommandType(op) ==
    CASE op = "connect" -> "rooCloudSignIn"
      [] op = "disconnect" -> "rooCloudSignOut"
      [] op = "visitWebsite" -> "openExternal"

----------------------------------------------------------------------------
(* C13: a logout-succeeded event is only ever added by an evaluation of the
   tracker that observes isAuthenticated = false, never by a click; as long
   as every render of the instance saw isAuthenticated = true, whatever was
   clicked, no logout-succeeded has been captured; and only a dispatcher
   click adds a posted command. *)
C13_LogoutSucceededOnlyFromTracker ==
    [][ /\ CountIn(trace', capture(ACCOUNT_LOGOUT_SUCCESS))
              > CountIn(trace, capture(ACCOUNT_LOGOUT_SUCCESS))
           => (lastOp' = "effect" /\ ~isAuthenticated')
        /\ (mounted' /\ \A i \in DOMAIN rendered' : rendered'[i])
           => CountIn(trace', capture(ACCOUNT_LOGOUT_SUCCESS)) = 0
        /\ PostsIn(trace') > PostsIn(trace) => lastOp' \in DispatcherOps ]_vars

\* disconnect was clicked, the host has signed out, but the view was never
\* rendered with false
C13_Witness ==
    /\ mounted
    /\ ~hostAuth
    /\ Len(rendered) >= 2
    /\ \A i \in DOMAIN rendered : rendered[i]
    /\ CountIn(trace, postMessage("rooCloudSignOut", Undefined)) = 1
    /\ Captured(ACCOUNT_LOGOUT_SUCCESS) = 0
    /\ lastOp = "hostAuthChange"

(* C14: a newly mounted instance starts with wasAuthenticatedRef = false;
   an instance mounted after an earlier instance observed isAuthenticated =
   true, and itself only rendered with false, captures no logout-succeeded. *)
C14_NoMemoryAcrossRemount ==
    /\ lastOp = "mount" => ~wasAuthenticatedRef
    /\ (mounted /\ priorSawAuth /\ \A i \in DOMAIN rendered : ~rendered[i]) =>
           /\ Captured(ACCOUNT_LOGOUT_SUCCESS) = 0
           /\ ~wasAuthenticatedRef

\* the second instance mounted signed out and has run its effect
C14_Witness ==
    /\ mounted
    /\ priorSawAuth
    /\ rendered = <<FALSE>>
    /\ lastOp = "effect"
    /\ trace = <<>>

(* C15: after an evaluation of the tracker, wasAuthenticatedRef equals the
   isAuthenticated the evaluation observed; within an instance the ref
   changes only in an evaluation that observes a value different from it. *)
C15_RefFollowsObservedValue ==
    [][ /\ lastOp' = "effect" => wasAuthenticatedRef' = isAuthenticated
        /\ (mounted /\ mounted' /\ wasAuthenticatedRef' # wasAuthenticatedRef)
           => (lastOp' = "effect" /\ isAuthenticated # wasAuthenticatedRef) ]_vars

\* the tracker observed true after false after true
C15_Witness ==
    /\ lastOp = "effect"
    /\ Len(rendered) >= 3
    /\ rendered[Len(rendered)]
    /\ ~rendered[Len(rendered) - 1]
    /\ wasAuthenticatedRef

(* C16: a connect, disconnect, visitWebsite or done click leaves
   wasAuthenticatedRef unchanged, and an evaluation of the tracker adds no
   posted command. *)
C16_ClicksKeepRefTrackerPostsNothing ==
    [][ /\ lastOp' \in (DispatcherOps \cup {"done"})
           => wasAuthenticatedRef' = wasAuthenticatedRef
        /\ lastOp' = "effect"
           => SelectSeq(trace', IsPost) = SelectSeq(trace, IsPost) ]_vars

\* done clicked after a dispatcher click while the tracker is in state In
C16_Witness ==
    /\ lastOp = "done"
    /\ wasAuthenticatedRef
    /\ clicks = 2
    /\ Len(trace) = 3
    /\ trace[2].kind = "post"

(* C17: every dispatcher click appends its command type to the sequence of
   posted commands; the number of posted commands equals the number of
   clicks that were not done clicks; and an evaluation of the tracker that
   observes false in state In adds exactly one logout-succeeded, however
   many sign-out requests were posted before. *)
C17_OneCommandPerInvocationInOrder ==
    [][ /\ lastOp' \in DispatcherOps
           => PostTypes(trace') = Append(PostTypes(trace), CommandType(lastOp'))
        /\ mounted' => PostsIn(trace') + CountIn(trace', onDone) = clicks'
        /\ (lastOp' = "effect" /\ wasAuthenticatedRef /\ ~isAuthenticated)
           => CountIn(trace', capture(ACCOUNT_LOGOUT_SUCCESS))
                = CountIn(trace, capture(ACCOUNT_LOGOUT_SUCCESS)) + 1 ]_vars

\* disconnect clicked twice, then the sign-out arrives: two requests, two
\* logout-clicked, one logout-succeeded
C17_Witness ==
    /\ rendered = <<TRUE, FALSE>>
    /\ trace = <<capture(ACCOUNT_LOGOUT_CLICKED), postMessage("rooCloudSignOut", Undefined),
                 capture(ACCOUNT_LOGOUT_CLICKED), postMessage("rooCloudSignOut", Undefined),
                 capture(ACCOUNT_LOGOUT_SUCCESS)>>

(* C18: a connect click happens only while the last render had
   isAuthenticated = false, a disconnect or visitWebsite click only while it
   had true; so a posted command is rooCloudSignIn exactly when it is posted
   under a render with isAuthenticated = false. *)
C18_ActionsGatedByRenderedAuth ==
    [][ /\ lastOp' = "connect" => (mounted /\ ~isAuthenticated)
        /\ lastOp' \in {"disconnect", "visitWebsite"} => (mounted /\ isAuthenticated)
        /\ \A i \in (Len(trace) + 1)..Len(trace') :
              trace'[i].kind = "post" =>
                  /\ trace'[i].name = "rooCloudSignIn" <=> ~isAuthenticated
                  /\ trace'[i].name \in {"rooCloudSignOut", "openExternal"} <=> isAuthenticated
      ]_vars

\* disconnect clicked on a view still rendered signed in after the host
\* has already signed out
C18_Witness ==
    /\ lastOp = "disconnect"
    /\ isAuthenticated
    /\ ~hostAuth
    /\ clicks = 1

----------------------------------------------------------------------------
(* Two instances of the view given the same props at every render, each with
   its own ref, effect and clicks: two runs that observe the same
   isAuthenticated sequence and differ in the operations invoked *)

\* values of userInfo and cloudApiUrl the host supplies to the pair
PairUserInfos ==
    {Null, CloudUserInfo(Undefined, Str(<<>>), Str(<<"a", "@b.com">>), Undefined, Undefined)}

PairCloudApiUrls == {Undefined, CustomCloudUrl}

\* the host's session changes while the pair is or is not mounted
PairHostAuthChange ==
    /\ Len(logical) < MaxPairRenders
    /\ hostAuth' = ~hostAuth
    /\ logical' = IF mounted THEN Append(logical, ~hostAuth) ELSE logical
    /\ lastOp' = "hostAuthChange"
    /\ UNCHANGED <<mounted, isAuthenticated, userInfo, cloudApiUrl, wasAuthenticatedRef,
                   effectPending, rendered, trace, clicks, priorSawAuth, twin>>

\* first render of both instances
PairMount ==
    /\ ~mounted
    /\ mounted' = TRUE
    /\ isAuthenticated' = hostAuth
    /\ userInfo' \in PairUserInfos
    /\ cloudApiUrl' \in PairCloudApiUrls
    /\ wasAuthenticatedRef' = wasAuthenticatedRefInitial
    /\ effectPending' = TRUE
    /\ rendered' = <<hostAuth>>
    /\ logical' = <<hostAuth>>
    /\ trace' = <<>>
    /\ clicks' = 0
    /\ twin' = [wasAuthenticatedRef |-> wasAuthenticatedRefInitial, effectPending |-> TRUE,
                trace |-> <<>>, clicks |-> 0]
    /\ lastOp' = "mount"
    /\ UNCHANGED <<hostAuth, priorSawAuth>>

\* a later render of both instances with the host's current props
PairRender ==
    /\ mounted
    /\ ~effectPending
    /\ ~twin.effectPending
    /\ Len(rendered) < MaxPairRenders
    /\ isAuthenticated' = hostAuth
    /\ userInfo' \in PairUserInfos
    /\ cloudApiUrl' \in PairCloudApiUrls
    /\ effectPending' = DepsChanged(isAuthenticated, hostAuth)
    /\ twin' = [twin EXCEPT !.effectPending = DepsChanged(isAuthenticated, hostAuth)]
    /\ rendered' = Append(rendered, hostAuth)
    /\ lastOp' = "render"
    /\ UNCHANGED <<mounted, hostAuth, wasAuthenticatedRef, logical, trace, clicks, priorSawAuth>>

\* the second instance's scheduled effect runs
TwinRunEffect ==
    /\ mounted
    /\ twin.effectPending
    /\ LET r == TrackerEffect(isAuthenticated, twin.wasAuthenticatedRef)
       IN twin' = [twin EXCEPT !.wasAuthenticatedRef = r.was,
                               !.trace = twin.trace \o r.captured,
                               !.effectPending = FALSE]
    /\ lastOp' = "twinEffect"
    /\ UNCHANGED <<mounted, hostAuth, isAuthenticated, userInfo, cloudApiUrl,
                   wasAuthenticatedRef, effectPending, rendered, logical, trace, clicks,
                   priorSawAuth>>

\* a click on the second instance's Connect button
TwinConnect ==
    /\ mounted
    /\ "handleConnectClick" \in View.buttons
    /\ twin.clicks < MaxTwinClicks
    /\ twin' = [twin EXCEPT !.trace = twin.trace \o handleConnectClick,
                            !.clicks = twin.clicks + 1]
    /\ lastOp' = "twinConnect"
    /\ UNCHANGED <<mounted, hostAuth, isAuthenticated, userInfo, cloudApiUrl,
                   wasAuthenticatedRef, effectPending, rendered, logical, trace, clicks,
                   priorSawAuth>>

\* a click on the second instance's Log out button
TwinDisconnect ==
    /\ mounted
    /\ "handleLogoutClick" \in View.buttons
    /\ twin.clicks < MaxTwinClicks
    /\ twin' = [twin EXCEPT !.trace = twin.trace \o handleLogoutClick,
                            !.clicks = twin.clicks + 1]
    /\ lastOp' = "twinDisconnect"
    /\ UNCHANGED <<mounted, hostAuth, isAuthenticated, userInfo, cloudApiUrl,
                   wasAuthenticatedRef, effectPending, rendered, logical, trace, clicks,
                   priorSawAuth>>

\* a click on the second instance's Visit cloud website button
TwinVisitWebsite ==
    /\ mounted
    /\ "handleVisitCloudWebsite" \in View.buttons
    /\ twin.clicks < MaxTwinClicks
    /\ twin' = [twin EXCEPT !.trace = twin.trace \o handleVisitCloudWebsite(cloudApiUrl),
                            !.clicks = twin.clicks + 1]
    /\ lastOp' = "twinVisitWebsite"
    /\ UNCHANGED <<mounted, hostAuth, isAuthenticated, userInfo, cloudApiUrl,
                   wasAuthenticatedRef, effectPending, rendered, logical, trace, clicks,
                   priorSawAuth>>

\* both instances are unmounted
PairUnmount ==
    /\ mounted
    /\ ~effectPending
    /\ ~twin.effectPending
    /\ mounted' = FALSE
    /\ priorSawAuth' = (priorSawAuth \/ (\E i \in DOMAIN rendered : rendered[i]))
    /\ isAuthenticated' = FALSE
    /\ userInfo' = Null
    /\ cloudApiUrl' = Undefined
    /\ wasAuthenticatedRef' = FALSE
    /\ rendered' = <<>>
    /\ logical' = <<>>
    /\ trace' = <<>>
    /\ clicks' = 0
    /\ twin' = NoTwin
    /\ lastOp' = "unmount"
    /\ UNCHANGED <<hostAuth, effectPending>>

PairNext ==
    \/ PairHostAuthChange
    \/ PairMount
    \/ PairRender
    \/ RunEffect
    \/ TwinRunEffect
    \/ Connect
    \/ Disconnect
    \/ VisitWebsite
    \/ TwinConnect
    \/ TwinDisconnect
    \/ TwinVisitWebsite
    \/ PairUnmount

SpecPair == Init /\ [][PairNext]_vars

(* C19: of two instances given the same isAuthenticated at every render,
   whatever is clicked on either, both have captured the same number of
   logout-succeeded events whenever both have run the effects of the same
   renders, and one that still has the last render's effect pending is
   behind by at most that render's event. *)
C19_LogoutSucceededIndependentOfClicks ==
    mounted =>
        LET mine == CountIn(trace, capture(ACCOUNT_LOGOUT_SUCCESS))
            theirs == CountIn(twin.trace, capture(ACCOUNT_LOGOUT_SUCCESS))
            lastEdge == FallingEdges(rendered)
                          - FallingEdges(SubSeq(rendered, 1, Len(rendered) - 1))
        IN /\ effectPending = twin.effectPending => mine = theirs
           /\ (effectPending /\ ~twin.effectPending) => theirs = mine + lastEdge
           /\ (~effectPending /\ twin.effectPending) => mine = theirs + lastEdge

\* one instance saw two disconnect clicks, the other no click at all; both
\* captured the one logout-succeeded of the sign-out
C19_Witness ==
    /\ mounted
    /\ ~effectPending
    /\ ~twin.effectPending
    /\ rendered = <<TRUE, FALSE>>
    /\ CountIn(trace, capture(ACCOUNT_LOGOUT_CLICKED)) = 2
    /\ twin.clicks = 0
    /\ CountIn(trace, capture(ACCOUNT_LOGOUT_SUCCESS)) = 1
    /\ twin.trace = <<capture(ACCOUNT_LOGOUT_SUCCESS)>>

====
